---- MODULE Spec2Model ----
(***************************************************************************)
(* Model of brdgme/fuzz (src/src/lib.rs): the fuzz() orchestrator, its     *)
(* worker threads, the Fuzzer iterator and the step / exit channels.       *)
(***************************************************************************)
EXTENDS Integers, Sequences, FiniteSets, TLC

(* ------------------------------------------------------------------ *)
(* Bounds                                                              *)
(* ------------------------------------------------------------------ *)

\* number of worker threads (num_cpus::get() on the modelled machine)
NumWorkers == 2

\* bound on the number of Fuzzer::next() calls made by all workers together
MaxSteps == 3

\* the draws of the random number generator that are enumerated
MaxRng == 1

Workers == 1..NumWorkers

RngDraws == 0..MaxRng

(* ------------------------------------------------------------------ *)
(* Option and Result                                                   *)
(* ------------------------------------------------------------------ *)

None == <<>>

Some(x) == <<x>>

IsSome(o) == o # <<>>

Unwrap(o) == o[1]

Ok(v) == [ok |-> TRUE, val |-> v]

Err(e) == [ok |-> FALSE, err |-> e]

(* ------------------------------------------------------------------ *)
(* Data: sessions, backend responses, commands                         *)
(* ------------------------------------------------------------------ *)

\* brdgme_game::Status as the code matches on it
Statuses ==
    { [kind |-> "Active", whose_turn |-> wt] : wt \in {<<>>, <<0>>, <<0, 1>>} }
        \cup { [kind |-> "Finished"] }

\* Vec<api::PlayerRender>; only command_spec is read
PlayerRenderVecs ==
    { << [command_spec |-> Some("spec")] >>, << [command_spec |-> None] >> }

\* struct FuzzGame { game: api::GameResponse, player_renders }: the sessions a
\* backend may hand out; a missing command_spec is enumerated for one status only
FuzzGame ==
    { [game |-> [state |-> "state", status |-> st], player_renders |-> pr] :
        st \in Statuses, pr \in PlayerRenderVecs }
      \ { g \in [game : [state : {"state"}, status : Statuses],
                  player_renders : PlayerRenderVecs] :
            /\ g.player_renders[1].command_spec = None
            /\ g.game.status # [kind |-> "Active", whose_turn |-> <<0>>] }

\* the text a Play response leaves unparsed, as a sequence of characters
RemainingInputs == { <<>>, <<" ">>, <<" ", "x">> }

\* the player-count lists a backend may report
PlayerCountVecs == { <<>>, <<2>> }

\* what client.request() may return: a transport failure or an api::Response
Responses ==
    { [kind |-> "Err"] }
        \cup { [kind |-> "PlayerCounts", player_counts |-> pcs] : pcs \in PlayerCountVecs }
        \cup { [kind |-> "New", game |-> g.game, player_renders |-> g.player_renders] :
                 g \in FuzzGame }
        \cup { [kind |-> "Play", game |-> g.game, player_renders |-> g.player_renders,
                remaining_input |-> ri] : g \in FuzzGame, ri \in RemainingInputs }
        \cup { [kind |-> "UserError", message |-> "invalid input"] }

\* the strings rand_command may synthesize
Commands == { "cmd" }

(* ------------------------------------------------------------------ *)
(* Pure functions of the source                                        *)
(* ------------------------------------------------------------------ *)

\* rng.choose(&vec): None on an empty vector, else one element
choose(vec, draw) ==
    IF Len(vec) = 0 THEN None ELSE Some(vec[(draw % Len(vec)) + 1])

\* fn names(players)
names(players) == [ p \in 1..players |-> <<"player", p - 1>> ]

IsWhitespace(c) == c = " "

RECURSIVE TrimStart(_)
TrimStart(s) ==
    IF s # <<>> /\ IsWhitespace(Head(s)) THEN TrimStart(Tail(s)) ELSE s

RECURSIVE TrimEnd(_)
TrimEnd(s) ==
    IF s # <<>> /\ IsWhitespace(s[Len(s)])
    THEN TrimEnd(SubSeq(s, 1, Len(s) - 1))
    ELSE s

\* str::trim
Trim(s) == TrimEnd(TrimStart(s))

\* enum CommandResponse
CommandResponseOk(g) == [kind |-> "Ok", game |-> g]

CommandResponseUserError(m) == [kind |-> "UserError", message |-> m]

\* enum FuzzStep
StepCreated == [kind |-> "Created"]

StepCommandOk == [kind |-> "CommandOk"]

StepUserError == [kind |-> "UserError"]

StepFinished == [kind |-> "Finished"]

StepError(g, c, e) == [kind |-> "Error", game |-> g, command |-> c, error |-> e]

\* the exchange with the backend made by one Fuzzer call (observation only): the
\* request sent, the command it carried, and the response's variant and unparsed
\* text (the session a response carries is left out of the record)
NoCall == [req |-> "none", command |-> None, resp |-> "none", remaining_input |-> <<>>]

Call(req, c, resp) ==
    [req |-> req, command |-> c, resp |-> resp.kind,
     remaining_input |-> IF resp.kind = "Play" THEN resp.remaining_input ELSE <<>>]

exec_commandRejectedFatal(resp) ==
    IF resp.kind = "Err" THEN Err("request failed")
    ELSE IF resp.kind = "Play" /\ Trim(resp.remaining_input) # <<>>
    THEN Ok(CommandResponseUserError("did not parse all input"))
    ELSE IF resp.kind = "Play"
    THEN Ok(CommandResponseOk([game |-> resp.game, player_renders |-> resp.player_renders]))
    ELSE Err("unexpected response")

\* fn exec_command: classify the response to a Play request
exec_command(resp) ==
    IF resp.kind = "Err" THEN Err("request failed")
    ELSE IF resp.kind = "Play" /\ Trim(resp.remaining_input) # <<>>
    THEN Ok(CommandResponseUserError("did not parse all input"))
    ELSE IF resp.kind = "Play"
    THEN Ok(CommandResponseOk([game |-> resp.game, player_renders |-> resp.player_renders]))
    ELSE IF resp.kind = "UserError" THEN Ok(CommandResponseUserError(resp.message))
    ELSE Err("unexpected response")

commandSkipsSpecCheck(f, draw, cmd, resp) ==
    IF f.game = None THEN [res |-> Err("there isn't a game"), call |-> NoCall]
    ELSE LET g == Unwrap(f.game) IN
      IF g.game.status.kind = "Finished"
      THEN [res |-> Err("the game is already finished"), call |-> NoCall]
      ELSE LET picked == choose(g.game.status.whose_turn, draw) IN
        IF picked = None
        THEN [res |-> Err("unable to pick active turn player"), call |-> NoCall]
        ELSE LET player == Unwrap(picked) IN
          IF Len(g.player_renders) <= player
          THEN [res |-> Err("there is no player_render for player"), call |-> NoCall]
          ELSE [res |-> exec_command(resp), call |-> Call("Play", Some(cmd), resp)]

\* Fuzzer::command: [res |-> Result<CommandResponse>, call |-> the exchange made]
command(f, draw, cmd, resp) ==
    IF f.game = None THEN [res |-> Err("there isn't a game"), call |-> NoCall]
    ELSE LET g == Unwrap(f.game) IN
      IF g.game.status.kind = "Finished"
      THEN [res |-> Err("the game is already finished"), call |-> NoCall]
      ELSE LET picked == choose(g.game.status.whose_turn, draw) IN
        IF picked = None
        THEN [res |-> Err("unable to pick active turn player"), call |-> NoCall]
        ELSE LET player == Unwrap(picked) IN
          IF Len(g.player_renders) <= player
          THEN [res |-> Err("there is no player_render for player"), call |-> NoCall]
          ELSE IF g.player_renders[player + 1].command_spec = None
          THEN [res |-> Err("command_spec is None"), call |-> NoCall]
          ELSE [res |-> exec_command(resp), call |-> Call("Play", Some(cmd), resp)]

\* Fuzzer::new_game: [fuzzer |-> the Fuzzer afterwards, res |-> Result<()>, call]
new_game(f, draw, resp) ==
    LET picked == choose(f.player_counts, draw) IN
    IF picked = None
    THEN [fuzzer |-> f, res |-> Err("could not get player counts"), call |-> NoCall]
    ELSE LET f1 == [f EXCEPT !.names = names(Unwrap(picked))] IN
      IF resp.kind = "Err"
      THEN [fuzzer |-> f1, res |-> Err("request failed"), call |-> Call("New", None, resp)]
      ELSE IF resp.kind = "New"
      THEN [fuzzer |-> [f1 EXCEPT !.game =
                          Some([game |-> resp.game, player_renders |-> resp.player_renders])],
            res |-> Ok("unit"), call |-> Call("New", None, resp)]
      ELSE [fuzzer |-> f1, res |-> Err("invalid response for new game"),
            call |-> Call("New", None, resp)]

nextFinishedKeepsGame(f, draw, cmd, resp) ==
    IF IsSome(f.game)
    THEN LET c == command(f, draw, cmd, resp) IN
      IF c.res.ok /\ c.res.val.kind = "Ok" /\ c.res.val.game.game.status.kind = "Finished"
      THEN [fuzzer |-> f, step |-> StepFinished, call |-> c.call]
      ELSE IF c.res.ok /\ c.res.val.kind = "Ok"
      THEN [fuzzer |-> [f EXCEPT !.game = Some(c.res.val.game)], step |-> StepCommandOk,
            call |-> c.call]
      ELSE IF c.res.ok
      THEN [fuzzer |-> f, step |-> StepUserError, call |-> c.call]
      ELSE [fuzzer |-> f, step |-> StepError(f.game, None, c.res.err), call |-> c.call]
    ELSE LET n == new_game(f, draw, resp) IN
      IF n.res.ok
      THEN [fuzzer |-> n.fuzzer, step |-> StepCreated, call |-> n.call]
      ELSE [fuzzer |-> n.fuzzer, step |-> StepError(None, None, n.res.err), call |-> n.call]

nextStoresFinished(f, draw, cmd, resp) ==
    IF IsSome(f.game)
    THEN LET c == command(f, draw, cmd, resp) IN
      IF c.res.ok /\ c.res.val.kind = "Ok" /\ c.res.val.game.game.status.kind = "Finished"
      THEN [fuzzer |-> [f EXCEPT !.game = Some(c.res.val.game)], step |-> StepFinished,
            call |-> c.call]
      ELSE IF c.res.ok /\ c.res.val.kind = "Ok"
      THEN [fuzzer |-> [f EXCEPT !.game = Some(c.res.val.game)], step |-> StepCommandOk,
            call |-> c.call]
      ELSE IF c.res.ok
      THEN [fuzzer |-> f, step |-> StepUserError, call |-> c.call]
      ELSE [fuzzer |-> f, step |-> StepError(f.game, None, c.res.err), call |-> c.call]
    ELSE LET n == new_game(f, draw, resp) IN
      IF n.res.ok
      THEN [fuzzer |-> n.fuzzer, step |-> StepCreated, call |-> n.call]
      ELSE [fuzzer |-> n.fuzzer, step |-> StepError(None, None, n.res.err), call |-> n.call]

\* impl Iterator for Fuzzer, fn next: [fuzzer, step, call]
next(f, draw, cmd, resp) ==
    IF IsSome(f.game)
    THEN LET c == command(f, draw, cmd, resp) IN
      IF c.res.ok /\ c.res.val.kind = "Ok" /\ c.res.val.game.game.status.kind = "Finished"
      THEN [fuzzer |-> [f EXCEPT !.game = None], step |-> StepFinished, call |-> c.call]
      ELSE IF c.res.ok /\ c.res.val.kind = "Ok"
      THEN [fuzzer |-> [f EXCEPT !.game = Some(c.res.val.game)], step |-> StepCommandOk,
            call |-> c.call]
      ELSE IF c.res.ok
      THEN [fuzzer |-> f, step |-> StepUserError, call |-> c.call]
      ELSE [fuzzer |-> f, step |-> StepError(f.game, None, c.res.err), call |-> c.call]
    ELSE LET n == new_game(f, draw, resp) IN
      IF n.res.ok
      THEN [fuzzer |-> n.fuzzer, step |-> StepCreated, call |-> n.call]
      ELSE [fuzzer |-> n.fuzzer, step |-> StepError(None, None, n.res.err), call |-> n.call]

\* Fuzzer::new: Result<Fuzzer>
FuzzerNew(resp) ==
    IF resp.kind = "Err" THEN Err("request failed")
    ELSE IF resp.kind = "PlayerCounts"
    THEN Ok([player_counts |-> resp.player_counts, names |-> <<>>, game |-> None])
    ELSE Err("invalid response to player counts request")

TallyStepUserErrorUncounted(t, step) ==
    IF step.kind = "Created" THEN [t EXCEPT !.started = @ + 1]
    ELSE IF step.kind = "Finished" THEN [t EXCEPT !.finished = @ + 1]
    ELSE IF step.kind = "CommandOk" THEN [t EXCEPT !.commands = @ + 1]
    ELSE IF step.kind = "UserError" THEN [t EXCEPT !.invalid_input = @ + 1]
    ELSE t

TallyStepErrorCounted(t, step) ==
    IF step.kind = "Created" THEN [t EXCEPT !.started = @ + 1]
    ELSE IF step.kind = "Finished" THEN [t EXCEPT !.finished = @ + 1]
    ELSE IF step.kind = "CommandOk" THEN [t EXCEPT !.commands = @ + 1]
    ELSE [t EXCEPT !.commands = @ + 1, !.invalid_input = @ + 1]

\* the match on the received step in fuzz(): the tally afterwards
TallyStep(t, step) ==
    IF step.kind = "Created" THEN [t EXCEPT !.started = @ + 1]
    ELSE IF step.kind = "Finished" THEN [t EXCEPT !.finished = @ + 1]
    ELSE IF step.kind = "CommandOk" THEN [t EXCEPT !.commands = @ + 1]
    ELSE IF step.kind = "UserError"
    THEN [t EXCEPT !.commands = @ + 1, !.invalid_input = @ + 1]
    ELSE t

BreaksLoopNever(step) == FALSE

BreaksLoopOnFinished(step) == step.kind \in { "Error", "Finished" }

\* the match on the received step in fuzz(): does the loop break
BreaksLoop(step) == step.kind = "Error"

TryRecvBreaksOnEmpty(messages, senderAlive) == TRUE

TryRecvBreaksOnDisconnectOnly(messages, senderAlive) ==
    IF messages > 0 THEN FALSE
    ELSE IF ~senderAlive THEN TRUE
    ELSE FALSE

\* the match on exit_rx.try_recv() in the worker loop: does the worker break
TryRecvBreaks(messages, senderAlive) ==
    IF messages > 0 THEN TRUE
    ELSE IF ~senderAlive THEN TRUE
    ELSE FALSE

(* ------------------------------------------------------------------ *)
(* State                                                               *)
(* ------------------------------------------------------------------ *)

VARIABLES
    opc,          \* where fuzz() is: "recv", "stop", "returned", "panicked"
    stopIdx,      \* index of the next exit_tx of the closing for loop
    tally,        \* FuzzTally
    consumed,     \* number of steps of each kind taken from step_rx
    chan,         \* the step channel, oldest first
    exitMsg,      \* per worker: messages queued on its exit channel
    exitTxAlive,  \* per worker: its exit_tx has not been dropped
    stopSent,     \* per worker: tx.send(()) succeeded for it
    lockHolder,   \* the worker holding the new_requester mutex, 0 if none
    poisoned,     \* the new_requester mutex is poisoned
    wpc,          \* per worker: "lock", "factory", "new", "next", "send", "check",
                  \* "exited", "panicked_startup", "panicked_send"
    fuzzer,       \* per worker: the Fuzzer (player_counts, names, game)
    produced,     \* per worker: the step its latest fuzzer.next() returned (kept for
                  \* observation after it is sent; it is in flight while wpc = "send")
    call,         \* per worker: the backend exchange made by the fuzzer.next() whose
                  \* step is in flight
    nsteps,       \* number of fuzzer.next() calls made, all workers together
    afterStop     \* per worker: steps it put on the channel after its stop signal was sent

vars ==
    << opc, stopIdx, tally, consumed, chan, exitMsg, exitTxAlive, stopSent, lockHolder,
       poisoned, wpc, fuzzer, produced, call, nsteps, afterStop >>

orchVars == << opc, stopIdx, tally, consumed, exitMsg, exitTxAlive, stopSent >>

StepKinds == { "Created", "CommandOk", "UserError", "Finished", "Error" }

\* step_rx is dropped when fuzz() returns or unwinds
StepRxDropped == opc \in { "returned", "panicked" }

\* a worker's exit_rx is dropped when its thread ends
ExitRxDropped(w) == wpc[w] \in { "exited", "panicked_startup", "panicked_send" }

NoFuzzer == [player_counts |-> <<>>, names |-> <<>>, game |-> None]

\* fuzz() has created the channels, spawned its worker threads and reached its loop;
\* a worker that has not run yet is about to take the new_requester lock
Init ==
    /\ opc = "recv"
    /\ stopIdx = 1
    /\ tally = [started |-> 0, finished |-> 0, commands |-> 0, invalid_input |-> 0]
    /\ consumed = [k \in StepKinds |-> 0]
    /\ chan = <<>>
    /\ exitMsg = [w \in Workers |-> 0]
    /\ exitTxAlive = [w \in Workers |-> TRUE]
    /\ stopSent = [w \in Workers |-> FALSE]
    /\ lockHolder = 0
    /\ poisoned = FALSE
    /\ wpc = [w \in Workers |-> "lock"]
    /\ fuzzer = [w \in Workers |-> NoFuzzer]
    /\ produced = [w \in Workers |-> None]
    /\ call = [w \in Workers |-> NoCall]
    /\ nsteps = 0
    /\ afterStop = [w \in Workers |-> 0]

(* ------------------------------------------------------------------ *)
(* Worker thread                                                       *)
(* ------------------------------------------------------------------ *)

\* new_requester.lock().unwrap(): panics on a poisoned mutex
WorkerLock(w) ==
    /\ wpc[w] = "lock"
    /\ lockHolder = 0
    /\ IF poisoned
       THEN /\ wpc' = [wpc EXCEPT ![w] = "panicked_startup"]
            /\ UNCHANGED lockHolder
       ELSE /\ wpc' = [wpc EXCEPT ![w] = "factory"]
            /\ lockHolder' = w
    /\ UNCHANGED << orchVars, chan, poisoned, fuzzer, produced, call, nsteps, afterStop >>

\* the factory call under the lock: it returns a client or panics
WorkerFactory(w) ==
    /\ wpc[w] = "factory"
    /\ lockHolder = w
    /\ lockHolder' = 0
    /\ \E built \in BOOLEAN :
          IF built
          THEN /\ wpc' = [wpc EXCEPT ![w] = "new"]
               /\ UNCHANGED poisoned
          ELSE /\ wpc' = [wpc EXCEPT ![w] = "panicked_startup"]
               /\ poisoned' = TRUE
    /\ UNCHANGED << orchVars, chan, fuzzer, produced, call, nsteps, afterStop >>

\* Fuzzer::new(client).expect(..)
WorkerNew(w) ==
    /\ wpc[w] = "new"
    /\ \E resp \in Responses :
          LET r == FuzzerNew(resp) IN
          IF r.ok
          THEN /\ fuzzer' = [fuzzer EXCEPT ![w] = r.val]
               /\ wpc' = [wpc EXCEPT ![w] = "next"]
          ELSE /\ wpc' = [wpc EXCEPT ![w] = "panicked_startup"]
               /\ UNCHANGED fuzzer
    /\ UNCHANGED << orchVars, chan, lockHolder, poisoned, produced, call, nsteps, afterStop >>

\* fuzzer.next(): one iteration of the Fuzzer, its backend exchange included
WorkerNext(w) ==
    /\ wpc[w] = "next"
    /\ nsteps < MaxSteps
    /\ \E draw \in RngDraws, cmd \in Commands, resp \in Responses :
          LET r == next(fuzzer[w], draw, cmd, resp) IN
          /\ fuzzer' = [fuzzer EXCEPT ![w] = r.fuzzer]
          /\ produced' = [produced EXCEPT ![w] = Some(r.step)]
          /\ call' = [call EXCEPT ![w] = r.call]
    /\ nsteps' = nsteps + 1
    /\ wpc' = [wpc EXCEPT ![w] = "send"]
    /\ UNCHANGED << orchVars, chan, lockHolder, poisoned, afterStop >>

\* step_tx.send(step).expect(..): fails once step_rx is dropped
WorkerSend(w) ==
    /\ wpc[w] = "send"
    /\ IF StepRxDropped
       THEN /\ wpc' = [wpc EXCEPT ![w] = "panicked_send"]
            /\ UNCHANGED << chan, afterStop >>
       ELSE /\ chan' = Append(chan, Unwrap(produced[w]))
            /\ wpc' = [wpc EXCEPT ![w] = "check"]
            /\ afterStop' = [afterStop EXCEPT ![w] = IF stopSent[w] THEN @ + 1 ELSE @]
    /\ call' = [call EXCEPT ![w] = NoCall]
    /\ UNCHANGED << orchVars, lockHolder, poisoned, fuzzer, produced, nsteps >>

\* match exit_rx.try_recv()
WorkerCheck(w) ==
    /\ wpc[w] = "check"
    /\ IF TryRecvBreaks(exitMsg[w], exitTxAlive[w])
       THEN wpc' = [wpc EXCEPT ![w] = "exited"]
       ELSE wpc' = [wpc EXCEPT ![w] = "next"]
    /\ exitMsg' = [exitMsg EXCEPT ![w] = IF @ > 0 THEN @ - 1 ELSE @]
    /\ UNCHANGED << opc, stopIdx, tally, consumed, chan, exitTxAlive, stopSent, lockHolder,
                    poisoned, fuzzer, produced, call, nsteps, afterStop >>

WorkerStep(w) ==
    \/ WorkerLock(w)
    \/ WorkerFactory(w)
    \/ WorkerNew(w)
    \/ WorkerNext(w)
    \/ WorkerSend(w)
    \/ WorkerCheck(w)

(* ------------------------------------------------------------------ *)
(* fuzz(): the consuming loop and the stop broadcast                   *)
(* ------------------------------------------------------------------ *)

OrchRecvNewestFirst ==
    /\ opc = "recv"
    /\ chan # <<>>
    /\ LET step == chan[Len(chan)] IN
          /\ tally' = TallyStep(tally, step)
          /\ consumed' = [consumed EXCEPT ![step.kind] = @ + 1]
          /\ opc' = IF BreaksLoop(step) THEN "stop" ELSE "recv"
    /\ chan' = SubSeq(chan, 1, Len(chan) - 1)
    /\ UNCHANGED << stopIdx, exitMsg, exitTxAlive, stopSent, lockHolder, poisoned, wpc,
                    fuzzer, produced, call, nsteps, afterStop >>

\* one iteration of the loop: step_rx.recv() blocks until a step is queued; the
\* status line printed before it reads the tally and changes no modelled state
OrchRecv ==
    /\ opc = "recv"
    /\ chan # <<>>
    /\ LET step == Head(chan) IN
          /\ tally' = TallyStep(tally, step)
          /\ consumed' = [consumed EXCEPT ![step.kind] = @ + 1]
          /\ opc' = IF BreaksLoop(step) THEN "stop" ELSE "recv"
    /\ chan' = Tail(chan)
    /\ UNCHANGED << stopIdx, exitMsg, exitTxAlive, stopSent, lockHolder, poisoned, wpc,
                    fuzzer, produced, call, nsteps, afterStop >>

\* one iteration of `for tx in exit_txs { tx.send(()).unwrap(); }`: the send fails
\* when the worker's exit_rx is gone, and the unwinding drops every remaining
\* exit_tx and step_rx; otherwise the signal is queued and this tx is dropped
OrchStop ==
    /\ opc = "stop"
    /\ stopIdx <= NumWorkers
    /\ IF ExitRxDropped(stopIdx)
       THEN /\ opc' = "panicked"
            /\ exitTxAlive' = [w \in Workers |-> FALSE]
            /\ chan' = <<>>
            /\ UNCHANGED << stopIdx, exitMsg, stopSent >>
       ELSE /\ exitMsg' = [exitMsg EXCEPT ![stopIdx] = @ + 1]
            /\ exitTxAlive' = [exitTxAlive EXCEPT ![stopIdx] = FALSE]
            /\ stopSent' = [stopSent EXCEPT ![stopIdx] = TRUE]
            /\ stopIdx' = stopIdx + 1
            /\ UNCHANGED << opc, chan >>
    /\ UNCHANGED << tally, consumed, lockHolder, poisoned, wpc, fuzzer, produced, call,
                    nsteps, afterStop >>

\* fuzz() returns after the loop: step_rx is dropped with whatever it still holds
OrchReturn ==
    /\ opc = "stop"
    /\ stopIdx = NumWorkers + 1
    /\ opc' = "returned"
    /\ chan' = <<>>
    /\ UNCHANGED << stopIdx, tally, consumed, exitMsg, exitTxAlive, stopSent, lockHolder,
                    poisoned, wpc, fuzzer, produced, call, nsteps, afterStop >>

fuzz ==
    \/ OrchRecv
    \/ OrchStop
    \/ OrchReturn

Next ==
    \/ fuzz
    \/ \E w \in Workers : WorkerStep(w)

Spec == Init /\ [][Next]_vars

\* the spawning thread and every worker thread keep being scheduled: fuzz() takes
\* its next step when it can, and a worker holding a step hands it to the channel
FairSpec ==
    /\ Spec
    /\ WF_vars(fuzz)
    /\ \A w \in Workers : WF_vars(WorkerSend(w))

(* ------------------------------------------------------------------ *)
(* Claims                                                              *)
(* ------------------------------------------------------------------ *)

StartupDone(w) == wpc[w] \notin { "lock", "factory", "new", "panicked_startup" }

SomeStartupFailed == \E w \in Workers : wpc[w] = "panicked_startup"

ErrorEmitted ==
    \E w \in Workers : wpc[w] = "send" /\ Unwrap(produced[w]).kind = "Error"

FuzzReturnedAfterStop ==
    /\ opc = "returned"
    /\ consumed["Error"] >= 1
    /\ \A w \in Workers : stopSent[w]

\* C1: under fair scheduling, once some Fuzzer has emitted an Error step, fuzz()
\* eventually has received an Error step, sent the stop signal to every worker and
\* returned -- unless some worker failed at startup.
C1_ErrorLeadsToReturn == ErrorEmitted ~> (FuzzReturnedAfterStop \/ SomeStartupFailed)

C1_Witness ==
    /\ FuzzReturnedAfterStop
    /\ \A w \in Workers : StartupDone(w)

TotalConsumed ==
    consumed["Created"] + consumed["CommandOk"] + consumed["UserError"]
        + consumed["Finished"] + consumed["Error"]

LoopLeft ==
    \/ opc # "recv"
    \/ \E w \in Workers : stopSent[w] \/ ~exitTxAlive[w] \/ exitMsg[w] > 0

\* C2: fuzz() leaves its consuming loop, sends a stop signal or returns only after it
\* has received an Error step; and as long as it is in the loop every queued step is
\* eventually consumed.
C2_LoopEndsOnlyOnError ==
    /\ [](LoopLeft => consumed["Error"] >= 1)
    /\ \A n \in 0..(MaxSteps + 1) :
          (opc = "recv" /\ chan # <<>> /\ TotalConsumed = n) ~> (TotalConsumed > n)

C2_Witness ==
    /\ opc = "recv"
    /\ TotalConsumed = MaxSteps
    /\ consumed["Error"] = 0
    /\ \A w \in Workers : exitTxAlive[w] /\ ~stopSent[w]

\* C3: once the stop signal has been sent to a worker, the worker puts at most one
\* further step on the step channel, and having put that step it checks the signal
\* and leaves its loop.
C3_AtMostOneStepAfterStop ==
    \A w \in Workers :
        /\ afterStop[w] <= 1
        /\ afterStop[w] = 1 => wpc[w] \in { "check", "exited" }

C3_Witness ==
    \E w \in Workers : stopSent[w] /\ afterStop[w] = 1 /\ wpc[w] = "exited"

Holding == { w \in Workers : IsSome(fuzzer[w].game) }

InFlightOf(w, kind) ==
    IF wpc[w] = "send" /\ Unwrap(produced[w]).kind = kind THEN 1 ELSE 0

RECURSIVE InFlightWorkers(_, _)
InFlightWorkers(n, kind) ==
    IF n = 0 THEN 0 ELSE InFlightOf(n, kind) + InFlightWorkers(n - 1, kind)

\* steps of a kind that a Fuzzer has emitted and fuzz() has not yet consumed
InFlight(kind) ==
    Len(SelectSeq(chan, LAMBDA st : st.kind = kind)) + InFlightWorkers(NumWorkers, kind)

\* C4 as stated: started == finished + (1 if some Fuzzer holds a Session, else 0).
C4_Original ==
    tally.started = tally.finished + (IF Holding # {} THEN 1 ELSE 0)

\* C4 amended: while the step channel is open, started plus the Created steps emitted
\* and not yet consumed equals finished plus the Finished steps emitted and not yet
\* consumed plus the number of Fuzzers that hold a Session.
C4_Amended ==
    ~StepRxDropped =>
        tally.started + InFlight("Created")
            = tally.finished + InFlight("Finished") + Cardinality(Holding)

C4_Witness ==
    /\ ~StepRxDropped
    /\ tally.started = 2
    /\ tally.finished = 1
    /\ Cardinality(Holding) = 1

\* C5: commands == invalid_input + (CommandOk steps consumed), and invalid_input is
\* the number of UserError steps consumed.
C5_CommandAccounting ==
    /\ tally.commands = tally.invalid_input + consumed["CommandOk"]
    /\ tally.invalid_input = consumed["UserError"]

C5_Witness ==
    /\ consumed["CommandOk"] >= 1
    /\ consumed["UserError"] >= 1

Counters(s, f, c, i) ==
    [started |-> s, finished |-> f, commands |-> c, invalid_input |-> i]

\* the tally the claim prescribes after consuming a step of the given kind
Prescribed(t, kind) ==
    CASE kind = "Created" ->
            Counters(t.started + 1, t.finished, t.commands, t.invalid_input)
      [] kind = "Finished" ->
            Counters(t.started, t.finished + 1, t.commands, t.invalid_input)
      [] kind = "CommandOk" ->
            Counters(t.started, t.finished, t.commands + 1, t.invalid_input)
      [] kind = "UserError" ->
            Counters(t.started, t.finished, t.commands + 1, t.invalid_input + 1)
      [] kind = "Error" -> t

\* C6: consuming one step changes exactly the counters listed for its kind, each by
\* one; no other step of the system changes the tally; no counter ever decreases.
C6_PerStepTally ==
    [][ /\ (consumed' # consumed) => (tally' = Prescribed(tally, Head(chan).kind))
        /\ (consumed' = consumed) => (tally' = tally)
        /\ tally'.started >= tally.started
        /\ tally'.finished >= tally.finished
        /\ tally'.commands >= tally.commands
        /\ tally'.invalid_input >= tally.invalid_input ]_vars

C6_Witness ==
    /\ consumed["Created"] = 1
    /\ consumed["UserError"] = 1
    /\ consumed["Error"] = 1
    /\ tally = Counters(1, 0, 1, 1)

\* a step of worker w that is one call of fuzzer.next()
Advanced(w) == wpc[w] = "next" /\ wpc'[w] = "send"

HeldStatus(w) == Unwrap(fuzzer[w].game).game.status.kind

\* C7 as stated: between advance() calls a held Session never has status Finished.
C7_Original ==
    \A w \in Workers : IsSome(fuzzer[w].game) => HeldStatus(w) # "Finished"

\* C7 amended: a Fuzzer's Session changes only in advance(); new_game is requested
\* only when no Session is held; a held Session is set to none exactly by the
\* advance() that emits Finished, which never stores the finished Session; a Session
\* stored by new_game is kept whatever its status, so a held Session has status
\* Finished only if the backend's new-game response already had it.
C7_Amended ==
    [][ \A w \in Workers :
          /\ ~Advanced(w) => fuzzer'[w].game = fuzzer[w].game
          /\ Advanced(w) =>
                /\ call'[w].req = "New" => fuzzer[w].game = None
                /\ (IsSome(fuzzer[w].game) /\ fuzzer'[w].game = None)
                      <=> Unwrap(produced'[w]).kind = "Finished"
                /\ ( /\ IsSome(fuzzer'[w].game)
                     /\ fuzzer'[w].game # fuzzer[w].game
                     /\ Unwrap(fuzzer'[w].game).game.status.kind = "Finished" )
                      => ( /\ call'[w].req = "New"
                           /\ call'[w].resp = "New"
                           /\ Unwrap(produced'[w]).kind = "Created" ) ]_vars

C7_Witness ==
    \E w \in Workers :
        /\ wpc[w] = "send"
        /\ call[w].req = "New"
        /\ IsSome(fuzzer[w].game)
        /\ HeldStatus(w) = "Finished"

LastStepKind(w) == IF produced[w] = None THEN "none" ELSE Unwrap(produced[w]).kind

\* C8: after an advance() that emitted Finished the Fuzzer holds no Session, and its
\* next advance() sends a new-game request (never a play request) and emits Created
\* or Error.
C8_FinishedThenNewGame ==
    /\ [](\A w \in Workers : LastStepKind(w) = "Finished" => fuzzer[w].game = None)
    /\ [][ \A w \in Workers :
              (Advanced(w) /\ LastStepKind(w) = "Finished") =>
                  /\ call'[w].req = "New"
                  /\ Unwrap(produced'[w]).kind \in { "Created", "Error" } ]_vars

C8_Witness ==
    \E w \in Workers :
        /\ \A v \in Workers \ {w} : produced[v] = None
        /\ consumed["Finished"] + InFlight("Finished") = 1
        /\ wpc[w] = "send"
        /\ call[w].req = "New"
        /\ LastStepKind(w) \in { "Created", "Error" }

NonBlank(s) == \E i \in 1..Len(s) : s[i] # " "

\* the play request of the exchange was answered Incomplete or Rejected
UserInputError(c) ==
    /\ c.req = "Play"
    /\ \/ c.resp = "UserError"
       \/ c.resp = "Play" /\ NonBlank(c.remaining_input)

\* C9: when play answers with non-blank unparsed input or with an explicit rejection,
\* advance() emits UserError and leaves the Fuzzer's Session as it was; and fuzz()
\* stays in its consuming loop when it receives a UserError step.
C9_UserErrorNotFatal ==
    [][ /\ \A w \in Workers :
              (Advanced(w) /\ UserInputError(call'[w])) =>
                  /\ Unwrap(produced'[w]).kind = "UserError"
                  /\ fuzzer'[w] = fuzzer[w]
        /\ (consumed'["UserError"] # consumed["UserError"]) => opc' = "recv" ]_vars

C9_Witness ==
    /\ opc = "recv"
    /\ consumed["UserError"] >= 1
    /\ \E w \in Workers :
          /\ wpc[w] = "send"
          /\ UserInputError(call[w])
          /\ call[w].resp = "Play"
          /\ LastStepKind(w) = "UserError"

\* C10 as stated: an Error step emitted after a play request carries the attempted
\* command and the Session held before the call; an Error step of a failed new_game
\* carries neither.
C10_Original ==
    \A w \in Workers :
        (wpc[w] = "send" /\ LastStepKind(w) = "Error") =>
            /\ call[w].req = "Play" =>
                  /\ Unwrap(produced[w]).command = call[w].command
                  /\ Unwrap(produced[w]).game = fuzzer[w].game
            /\ fuzzer[w].game = None =>
                  /\ Unwrap(produced[w]).command = None
                  /\ Unwrap(produced[w]).game = None

\* C11 as stated: the stop broadcast is best-effort, so fuzz() never panics in it: a
\* worker that has already ended does not stop fuzz() from signalling the others and
\* returning.
C11_Original ==
    /\ opc # "panicked"
    /\ opc = "returned" => \A w \in Workers : stopSent[w] \/ ExitRxDropped(w)

\* C12 as stated: a construction error at the startup of any one worker is fatal for
\* the whole run: from then on fuzz() consumes and tallies no further step of the
\* remaining workers.
C12_Original ==
    [][SomeStartupFailed => (consumed' = consumed /\ tally' = tally)]_vars

InLoop == { "next", "send", "check" }

\* C13: a worker does not stop because it forwarded an Error step: when it then finds
\* no stop signal and its stop channel open it goes back to advance(); and a worker
\* leaves its loop (by break or by a panic) only when its stop signal is present or
\* its stop channel is closed.
C13_ErrorDoesNotStopWorker ==
    [][\A w \in Workers :
          /\ ( /\ wpc[w] = "check" /\ LastStepKind(w) = "Error"
               /\ exitMsg[w] = 0 /\ exitTxAlive[w]
               /\ wpc'[w] # wpc[w] )
             => wpc'[w] = "next"
          /\ (wpc[w] \in InLoop /\ wpc'[w] \notin InLoop)
             => (exitMsg[w] > 0 \/ ~exitTxAlive[w])]_vars

\* a worker forwarded an Error step, advanced again and forwarded the next step
C13_Witness ==
    \E w \in Workers :
        /\ \A v \in Workers \ {w} : produced[v] = None
        /\ wpc[w] = "check" /\ nsteps = 2
        /\ Len(chan) = 2 /\ chan[1].kind = "Error"

\* the situations C14 lists, for a Fuzzer f whose next random draw is draw
ProtocolViolation(f, draw) ==
    IF f.game = None THEN f.player_counts = <<>>
    ELSE LET g == Unwrap(f.game)
             st == g.game.status
         IN  \/ st.kind = "Finished"
             \/ st.kind = "Active" /\ st.whose_turn = <<>>
             \/ /\ st.kind = "Active" /\ st.whose_turn # <<>>
                /\ LET p == st.whose_turn[(draw % Len(st.whose_turn)) + 1]
                   IN  \/ p >= Len(g.player_renders)
                       \/ g.player_renders[p + 1].command_spec = None

\* C14: an advance() made in one of the protocol-violation situations (selected
\* player without command_spec or without player_render, empty whose_turn, held
\* Session already Finished, or no Session and no player count to choose) emits an
\* Error step carrying the held Session (none when none is held) and no command,
\* makes no request and leaves the Fuzzer as it was; the worker goes on to send it.
C14_ViolationsAreErrorSteps ==
    [][\A w \in Workers : Advanced(w) =>
          \A draw \in RngDraws, cmd \in Commands, resp \in Responses :
              ( /\ ProtocolViolation(fuzzer[w], draw)
                /\ next(fuzzer[w], draw, cmd, resp)
                     = [fuzzer |-> fuzzer'[w], step |-> Unwrap(produced'[w]),
                        call |-> call'[w]] )
              => /\ Unwrap(produced'[w]).kind = "Error"
                 /\ Unwrap(produced'[w]).game = fuzzer[w].game
                 /\ Unwrap(produced'[w]).command = None
                 /\ fuzzer'[w] = fuzzer[w]
                 /\ call'[w] = NoCall]_vars

\* a worker is about to send the Error step for a selected player whose command_spec
\* is none, still holding the same Session
C14_Witness ==
    \E w \in Workers :
        /\ wpc[w] = "send" /\ LastStepKind(w) = "Error"
        /\ Unwrap(produced[w]).error = "command_spec is None"
        /\ IsSome(fuzzer[w].game)
        /\ Unwrap(produced[w]).game = fuzzer[w].game

\* C15: fuzz() never proceeds past a fatal step: once it has received an Error step
\* it receives no further step and the tally never changes again.
C15_NothingAfterFirstError ==
    [][consumed["Error"] >= 1 =>
          /\ consumed' = consumed
          /\ tally' = tally
          /\ opc' # "recv"]_vars

\* fuzz() has received its Error step and is broadcasting the stop signal while
\* other steps sit unreceived in the step channel
C15_Witness ==
    /\ consumed["Error"] = 1
    /\ opc = "stop"
    /\ TotalConsumed >= 2
    /\ Len(chan) >= 1

\* the workers whose factory call is in progress
InFactory == { w \in Workers : wpc[w] = "factory" }

\* at most one factory call at a time, made by the holder of the lock
FactoryExclusive ==
    /\ Cardinality(InFactory) <= 1
    /\ \A w \in InFactory : lockHolder = w

\* no worker invokes the factory a second time, and the construction of the Fuzzer
\* and the loop are reached only through a factory call
FactoryAtMostOnce(w) ==
    /\ (wpc'[w] = "factory" /\ wpc[w] # "factory") => wpc[w] = "lock"
    /\ wpc'[w] = "lock" => wpc[w] = "lock"
    /\ (wpc'[w] = "new" /\ wpc[w] # "new") => wpc[w] = "factory"

\* C16 as stated: every worker invokes the factory exactly once, as the first thing
\* its thread does, and never two workers at the same time.
C16_Original ==
    [][/\ FactoryExclusive /\ FactoryExclusive'
       /\ \A w \in Workers :
             /\ FactoryAtMostOnce(w)
             /\ (wpc[w] = "lock" /\ wpc'[w] # "lock") => wpc'[w] = "factory"]_vars

\* C17: in every state 0 <= started - finished <= N, N the number of workers: the
\* tally never shows more finished than started games, nor more games under way
\* than there are Fuzzers.
C17_ActiveGamesBounded ==
    /\ tally.finished <= tally.started
    /\ tally.started - tally.finished <= NumWorkers

\* the tally shows as many games under way as there are workers, each worker's
\* Created step having been received
C17_Witness ==
    /\ tally.started - tally.finished = NumWorkers
    /\ \A w \in Workers : LastStepKind(w) = "Created" /\ wpc[w] # "send"

\* C18: with its Error steps left out, the steps of one Fuzzer form a prefix of
\* (Created (CommandOk | UserError)* Finished)*. Whether a Session is held is the
\* state of that automaton: Created is emitted only when none is held and leaves
\* one held, CommandOk and UserError only when one is held and leave one held,
\* Finished only when one is held and leaves none, an Error step leaves it as it
\* was; a Fuzzer starts with none, nothing but advance() changes it, and every
\* advance() emits exactly one step.
C18_StepGrammar ==
    [][\A w \in Workers :
          LET held == IsSome(fuzzer[w].game)
              heldAfter == IsSome(fuzzer'[w].game)
          IN  /\ wpc[w] \in { "lock", "factory", "new" } => ~held /\ produced[w] = None
              /\ ~Advanced(w) => (heldAfter = held /\ produced'[w] = produced[w])
              /\ Advanced(w) =>
                    /\ IsSome(produced'[w])
                    /\ nsteps' = nsteps + 1
                    /\ LET kind == Unwrap(produced'[w]).kind IN
                          /\ kind \in StepKinds
                          /\ kind = "Created" => (~held /\ heldAfter)
                          /\ kind \in { "CommandOk", "UserError" } => (held /\ heldAfter)
                          /\ kind = "Finished" => (held /\ ~heldAfter)
                          /\ kind = "Error" => heldAfter = held]_vars

\* one Fuzzer has emitted Created, then CommandOk or UserError, then Finished
C18_Witness ==
    \E w \in Workers :
        /\ \A v \in Workers \ {w} : produced[v] = None
        /\ wpc[w] = "send" /\ LastStepKind(w) = "Finished"
        /\ Len(chan) = 2
        /\ chan[1].kind = "Created"
        /\ chan[2].kind \in { "CommandOk", "UserError" }

\* C19 as stated: no worker sends a step after fuzz() has dropped step_rx, so the
\* send never fails: no worker panics on it, and a worker's thread ends only
\* through the break after exit_rx.try_recv().
C19_Original ==
    \A w \in Workers : wpc[w] # "panicked_send"

\* a thread that can still take a step
Running(w) == wpc[w] \in { "lock", "factory", "new" } \cup InLoop

\* C20 as stated: whenever fuzz() is blocked in step_rx.recv() on an empty step
\* channel, some worker is still running (and so can emit a further step), also
\* when the startup of some or all workers has failed.
C20_Original ==
    (opc = "recv" /\ chan = <<>>) => \E w \in Workers : Running(w)

====
